---------------------------- MODULE Spec2Model ----------------------------
(* A model of the live face-emotion-recognition pipeline:                  *)
(*   fer_core.py         FEREngine (detect_faces, analyze_emotion,         *)
(*                       process_frame)                                    *)
(*   live_camera_app.py  LiveCameraFER (rolling history, statistics,       *)
(*                       camera loop) and the Streamlit script main()      *)
(*                                                                         *)
(* Conventions.                                                            *)
(*  - A Python dict is an insertion-ordered sequence of <<key, value>>     *)
(*    pairs with distinct keys.                                            *)
(*  - A probability is an exact fraction [num, den]; the classifier's raw  *)
(*    weights are naturals.  Floating-point rounding is not modelled.      *)
(*  - A frame buffer is a heap cell [id, w, h, marks]; marks is the        *)
(*    sequence of things drawn on it.  A numpy array passed to a function  *)
(*    is passed as a reference to its cell.                                *)
(*  - time.time() is a logical clock that ticks at every reading.          *)
EXTENDS Integers, Sequences, FiniteSets, TLC

(***************************************************************************)
(* Bounds of the model                                                     *)
(***************************************************************************)
MaxRawLen == 3      \* keys of a raw classifier distribution
MaxWeight == 2      \* largest raw weight of one label
MaxFaces == 2       \* boxes the detector reports on one frame

(***************************************************************************)
(* Python helpers                                                          *)
(***************************************************************************)
Range(s) == {s[i] : i \in 1..Len(s)}

\* dict.keys(), in iteration order
Keys(d) == [i \in 1..Len(d) |-> d[i][1]]

\* key in dict
DictHas(d, k) == \E i \in 1..Len(d) : d[i][1] = k

\* dict.get(k, default)
DictGet(d, k, default) ==
    IF DictHas(d, k) THEN d[CHOOSE i \in 1..Len(d) : d[i][1] = k][2] ELSE default

\* d[k] = v : an existing key keeps its position, a new key goes last
DictSet(d, k, v) ==
    IF DictHas(d, k)
    THEN [i \in 1..Len(d) |-> IF d[i][1] = k THEN <<k, v>> ELSE d[i]]
    ELSE Append(d, <<k, v>>)

\* the ordered dicts over keys K and values V with at most n items
Dicts(K, V, n) ==
    {d \in UNION {[1..m -> K \X V] : m \in 0..n} :
        \A i, j \in 1..Len(d) : d[i][1] = d[j][1] => i = j}

Frac(n, d) == [num |-> n, den |-> d]
FracLess(a, b) == a.num * b.den < b.num * a.den
FracEq(a, b) == a.num * b.den = b.num * a.den

\* int(a / b) for b > 0: truncation toward zero
TruncDiv(a, b) == IF a >= 0 THEN a \div b ELSE -((-a) \div b)

(***************************************************************************)
(* FEREngine: the label map and analyze_emotion                            *)
(***************************************************************************)
emotion_labels == <<"angry", "disgust", "fear", "happy", "sad", "surprise", "neutral">>

\* A faulty variant: 'fear' is left as it is.
emotion_mapping_fear_kept ==
    << <<"angry", "anger">>, <<"disgust", "disgust">>, <<"fear", "fear">>,
       <<"happy", "happy">>, <<"sad", "sad">>, <<"surprise", "surprise">>,
       <<"neutral", "neutral">> >>

emotion_mapping ==
    << <<"angry", "anger">>, <<"disgust", "disgust">>, <<"fear", "frustration">>,
       <<"happy", "happy">>, <<"sad", "sad">>, <<"surprise", "surprise">>,
       <<"neutral", "neutral">> >>

\* self.emotion_mapping.get(emotion, emotion)
MapLabel(emotion) == DictGet(emotion_mapping, emotion, emotion)

\* A faulty variant: a colliding label overwrites the earlier weight.
AccumulateOverwrite(mapped, emotion, prob) ==
    DictSet(mapped, MapLabel(emotion), prob)

\* One iteration of the mapping loop.
Accumulate(mapped, emotion, prob) ==
    LET m == MapLabel(emotion)
    IN  IF DictHas(mapped, m)
        THEN DictSet(mapped, m, DictGet(mapped, m, 0) + prob)
        ELSE DictSet(mapped, m, prob)

\* for emotion, prob in emotions.items(): ...
RECURSIVE MapLoop(_, _, _)
MapLoop(emotions, i, mapped) ==
    IF i > Len(emotions) THEN mapped
    ELSE MapLoop(emotions, i + 1, Accumulate(mapped, emotions[i][1], emotions[i][2]))

\* sum(mapped_emotions.values())
RECURSIVE SumValues(_, _)
SumValues(d, i) == IF i > Len(d) THEN 0 ELSE d[i][2] + SumValues(d, i + 1)

\* The mapping and normalisation block of analyze_emotion.
remap_distribution(emotions) ==
    LET mapped_emotions == MapLoop(emotions, 1, <<>>)
        total_prob == SumValues(mapped_emotions, 1)
    IN  IF total_prob > 0
        THEN [i \in 1..Len(mapped_emotions) |->
                <<mapped_emotions[i][1], Frac(mapped_emotions[i][2], total_prob)>>]
        ELSE [i \in 1..Len(mapped_emotions) |->
                <<mapped_emotions[i][1], Frac(mapped_emotions[i][2], 1)>>]

\* What DeepFace.analyze does on one call:
\*   [kind |-> "raise"]                      it raises
\*   [kind |-> "dict", result |-> r]         it returns the dict r
\*   [kind |-> "list", results |-> <<r..>>]  it returns a list of dicts
\* A result dict r is [has_emotion, emotion]: whether it has the key
\* 'emotion', and the raw distribution under it.
ResultEmotions(r) == IF r.has_emotion THEN r.emotion ELSE <<>>

\* A faulty variant: the classifier's exception is not caught.
analyze_emotion_uncaught(crop_empty, outcome) ==
    IF crop_empty \/ outcome.kind = "raise" THEN [raised |-> TRUE, emotions |-> <<>>]
    ELSE IF outcome.kind = "list"
         THEN IF Len(outcome.results) = 0
              THEN [raised |-> TRUE, emotions |-> <<>>]
              ELSE [raised |-> FALSE,
                    emotions |-> remap_distribution(ResultEmotions(outcome.results[1]))]
         ELSE [raised |-> FALSE,
               emotions |-> remap_distribution(ResultEmotions(outcome.result))]

\* analyze_emotion(face_img): cvtColor raises on an empty crop, DeepFace may
\* raise, result[0] raises on an empty list; every Exception is caught and
\* {} returned.
analyze_emotion(crop_empty, outcome) ==
    IF crop_empty \/ outcome.kind = "raise" THEN [raised |-> FALSE, emotions |-> <<>>]
    ELSE IF outcome.kind = "list"
         THEN IF Len(outcome.results) = 0
              THEN [raised |-> FALSE, emotions |-> <<>>]
              ELSE [raised |-> FALSE,
                    emotions |-> remap_distribution(ResultEmotions(outcome.results[1]))]
         ELSE [raised |-> FALSE,
               emotions |-> remap_distribution(ResultEmotions(outcome.result))]

(***************************************************************************)
(* FEREngine: detect_faces and process_frame                               *)
(***************************************************************************)
\* The detector reports a box relative to the frame; the model counts the
\* relative coordinates in units of 1/RelDen.
RelDen == 4

\* What the MediaPipe detector does on one frame:
\*   [kind |-> "error"]                     it raises
\*   [kind |-> "ok", detections |-> <<b..>>]  relative boxes (none: no face)

\* int(bbox.xmin * w) and its three siblings
PixelBox(bbox, w, h) ==
    [x |-> TruncDiv(bbox.xmin * w, RelDen),
     y |-> TruncDiv(bbox.ymin * h, RelDen),
     width |-> TruncDiv(bbox.width * w, RelDen),
     height |-> TruncDiv(bbox.height * h, RelDen)]

\* A faulty variant: a detector error is swallowed and no face reported.
detect_faces_swallow(frame, det) ==
    IF det.kind = "error" THEN [raised |-> FALSE, face_boxes |-> <<>>, calls |-> 1]
    ELSE [raised |-> FALSE,
          face_boxes |-> [i \in 1..Len(det.detections) |->
                            PixelBox(det.detections[i], frame.w, frame.h)],
          calls |-> 1]

\* detect_faces(frame): one call of the detector; its error is not caught.
detect_faces(frame, det) ==
    IF det.kind = "error" THEN [raised |-> TRUE, face_boxes |-> <<>>, calls |-> 1]
    ELSE [raised |-> FALSE,
          face_boxes |-> [i \in 1..Len(det.detections) |->
                            PixelBox(det.detections[i], frame.w, frame.h)],
          calls |-> 1]

\* len(range(n)[start:stop]) for a Python slice with step 1
SliceLen(start, stop, n) ==
    LET norm(k) == IF k < 0 THEN (IF k + n < 0 THEN 0 ELSE k + n)
                   ELSE (IF k > n THEN n ELSE k)
    IN  IF norm(stop) > norm(start) THEN norm(stop) - norm(start) ELSE 0

\* frame[y:y+h, x:x+w] has no pixel
CropEmpty(frame, b) ==
    \/ SliceLen(b.y, b.y + b.height, frame.h) = 0
    \/ SliceLen(b.x, b.x + b.width, frame.w) = 0

\* A faulty variant: among equal maxima the last item wins.
RECURSIVE ArgMaxLast(_, _, _)
ArgMaxLast(emotions, i, best) ==
    IF i > Len(emotions) THEN best
    ELSE ArgMaxLast(emotions, i + 1,
                    IF FracLess(emotions[i][2], emotions[best][2]) THEN best ELSE i)

\* max(emotions.items(), key=lambda x: x[1])[0]: the first maximal item
RECURSIVE ArgMaxFirst(_, _, _)
ArgMaxFirst(emotions, i, best) ==
    IF i > Len(emotions) THEN best
    ELSE ArgMaxFirst(emotions, i + 1,
                     IF FracLess(emotions[best][2], emotions[i][2]) THEN i ELSE best)

DominantEmotion(emotions) ==
    IF Len(emotions) > 0 THEN emotions[ArgMaxFirst(emotions, 1, 1)][1] ELSE "neutral"

\* cv2.rectangle, the dominant-emotion label, and one text line per emotion
Drawn(b, result) ==
    << [kind |-> "rectangle", at |-> <<b.x, b.y, b.x + b.width, b.y + b.height>>],
       [kind |-> "text", at |-> <<b.x, b.y - 10>>,
        text |-> <<"upper", result.dominant_emotion>>] >>
    \o [i \in 1..Len(result.emotions) |->
          [kind |-> "text", at |-> <<b.x, b.y + b.height + 20 * i>>,
           text |-> result.emotions[i]]]

\* The array process_frame draws on and returns: the caller's own.
DrawTarget(heap, ref) == [heap |-> heap, target |-> ref]

\* The body of "for (x, y, w, h) in face_boxes", from box i on.  st is
\* [raised, heap, results]; the crop is read from, and the drawing goes to,
\* the same array.
RECURSIVE FaceLoop(_, _, _, _, _, _)
FaceLoop(face_boxes, cls, i, ref, target, st) ==
    IF i > Len(face_boxes) \/ st.raised THEN st
    ELSE LET b == face_boxes[i]
             a == analyze_emotion(CropEmpty(st.heap[ref], b), cls[i])
             result == [bbox |-> b, emotions |-> a.emotions,
                        dominant_emotion |-> DominantEmotion(a.emotions)]
         IN  IF a.raised
             THEN [st EXCEPT !.raised = TRUE]
             ELSE FaceLoop(face_boxes, cls, i + 1, ref, target,
                    [raised |-> FALSE,
                     heap |-> [st.heap EXCEPT ![target].marks = @ \o Drawn(b, result)],
                     results |-> Append(st.results, result)])

\* FEREngine.process_frame(frame): frame is the reference ref into heap.
\* Returns [raised, heap, frame_ref, results, det_calls].
FEREngine_process_frame(heap, ref, det, cls) ==
    LET d == detect_faces(heap[ref], det)
        t == DrawTarget(heap, ref)
        st == FaceLoop(d.face_boxes, cls, 1, ref, t.target,
                       [raised |-> FALSE, heap |-> t.heap, results |-> <<>>])
    IN  IF d.raised
        THEN [raised |-> TRUE, heap |-> heap, frame_ref |-> 0, results |-> <<>>,
              det_calls |-> d.calls]
        ELSE [raised |-> st.raised, heap |-> st.heap,
              frame_ref |-> IF st.raised THEN 0 ELSE t.target,
              results |-> IF st.raised THEN <<>> ELSE st.results,
              det_calls |-> d.calls]

(***************************************************************************)
(* LiveCameraFER: the rolling history and process_frame                    *)
(***************************************************************************)
maxlen == 100

\* A faulty variant: the deque has no maxlen.
deque_append_unbounded(h, e) == Append(h, e)

\* A faulty variant: a full deque drops the new entry and keeps the old ones.
deque_append_keep_old(h, e) == IF Len(h) >= maxlen THEN h ELSE Append(h, e)

\* deque(maxlen=100).append(e): a full deque drops its leftmost entry
deque_append(h, e) == IF Len(h) >= maxlen THEN Append(Tail(h), e) ELSE Append(h, e)

\* max(result['emotions'].values()) if result['emotions'] else 0
RECURSIVE MaxValue(_, _, _)
MaxValue(emotions, i, best) ==
    IF i > Len(emotions) THEN best
    ELSE MaxValue(emotions, i + 1,
                  IF FracLess(best, emotions[i][2]) THEN emotions[i][2] ELSE best)

\* A faulty variant: the probability of the first item, not the largest.
ConfidenceOfFirst(emotions) ==
    IF Len(emotions) > 0 THEN emotions[1][2] ELSE Frac(0, 1)

\* max(result['emotions'].values()) if result['emotions'] else 0
Confidence(emotions) ==
    IF Len(emotions) > 0 THEN MaxValue(emotions, 2, emotions[1][2]) ELSE Frac(0, 1)

\* The entry appended for one result, time.time() having returned now.
HistoryEntry(result, now) ==
    [emotion |-> result.dominant_emotion,
     confidence |-> Confidence(result.emotions),
     timestamp |-> now]

\* "for result in results: self.emotion_history.append(...)", from result i
\* on; st is [history, clock].
RECURSIVE AppendResults(_, _, _)
AppendResults(results, i, st) ==
    IF i > Len(results) THEN st
    ELSE AppendResults(results, i + 1,
            [history |-> deque_append(st.history, HistoryEntry(results[i], st.clock + 1)),
             clock |-> st.clock + 1])

\* LiveCameraFER.process_frame(frame), run without interruption: r is what
\* FEREngine.process_frame did.  An exception of the engine is caught and
\* (frame, []) returned.
LiveCameraFER_process_frame(history, now, ref, r) ==
    IF r.raised
    THEN [history |-> history, clock |-> now, frame_ref |-> ref, results |-> <<>>]
    ELSE LET st == AppendResults(r.results, 1, [history |-> history, clock |-> now])
         IN  [history |-> st.history, clock |-> st.clock,
              frame_ref |-> r.frame_ref, results |-> r.results]

(***************************************************************************)
(* State                                                                   *)
(***************************************************************************)
VARIABLES
    \* one call of analyze_emotion
    cls_outcome,      \* what the classifier does on this call
    analyze_pc,       \* "call", "returned"
    analyze_ret,      \* the dict analyze_emotion returned
    \* one call of FEREngine.process_frame
    frame_heap,       \* the frame buffers
    caller_frame,     \* the caller's buffer as it was when the call was made
    det_outcome,      \* what the detector does on this frame
    cls_outcomes,     \* what the classifier does on the i-th face
    engine_pc,        \* "call", "returned", "raised"
    engine_ret,       \* [frame_ref, results] that process_frame returned
    det_calls,        \* detector calls made for this frame
    \* LiveCameraFER
    emotion_history,  \* the deque of history entries
    clock,            \* readings of time.time() so far
    appended,         \* every entry ever appended, in order (history variable)
    feed,             \* the scene in front of the camera
    cap,              \* self.cap: 0 for None, else an index into caps
    caps,             \* every cv2.VideoCapture made so far: [opened]
    is_running,       \* self.is_running
    frame_count,      \* self.frame_count
    current_frame,    \* self.current_frame: [has, frame]
    current_results,  \* self.current_results: [has, of, results]
    camera_running,   \* st.session_state.camera_running
    frames_read,      \* frames the camera has delivered
    loops,            \* the camera threads started so far:
                      \*   [pc, acquired, frame, results, idx, stopped, failed]
    \* the Streamlit script thread
    main_pc,          \* where the script is
    read_frame,       \* the frame the display has read
    displayed,        \* the pair last displayed: [has, frame_id, results_of, results]
    stats_it,         \* get_emotion_statistics: [total, state, remaining, seen]
    stats_out         \* its last outcome: [status, total, seen, stats]

analyzeVars == <<cls_outcome, analyze_pc, analyze_ret>>
engineVars == <<frame_heap, caller_frame, det_outcome, cls_outcomes, engine_pc,
                engine_ret, det_calls>>
historyVars == <<emotion_history, clock, appended, feed>>
appVars == <<cap, caps, is_running, frame_count, current_frame, current_results,
             camera_running, frames_read, loops>>
mainVars == <<main_pc, read_frame, displayed, stats_it, stats_out>>
sessionVars == <<appVars, mainVars>>
vars == <<analyzeVars, engineVars, historyVars, sessionVars>>

\* The variables of a part of the program that a specification does not run.
AnalyzeIdle ==
    /\ cls_outcome = [kind |-> "raise"]
    /\ analyze_pc = "returned"
    /\ analyze_ret = <<>>

EngineIdle ==
    /\ frame_heap = <<>>
    /\ caller_frame = [id |-> 0, w |-> 0, h |-> 0, marks |-> <<>>]
    /\ det_outcome = [kind |-> "error"]
    /\ cls_outcomes = <<>>
    /\ engine_pc = "raised"
    /\ engine_ret = [frame_ref |-> 0, results |-> <<>>]
    /\ det_calls = 0

HistoryIdle ==
    /\ emotion_history = <<>>
    /\ clock = 0
    /\ appended = <<>>
    /\ feed = 0

NoFrame == [id |-> 0, w |-> 0, h |-> 0, marks |-> <<>>]
NoIterator == [total |-> 0, state |-> 0, remaining |-> 0, seen |-> <<>>]
NoDisplay == [has |-> FALSE, frame_id |-> 0, results_of |-> 0, results |-> <<>>]
NoStats == [status |-> "none", total |-> 0, seen |-> <<>>, stats |-> <<>>]

\* LiveCameraFER.__init__, and a script thread that has not run yet.
SessionIdle ==
    /\ cap = 0
    /\ caps = <<>>
    /\ is_running = FALSE
    /\ frame_count = 0
    /\ current_frame = [has |-> FALSE, frame |-> NoFrame]
    /\ current_results = [has |-> FALSE, of |-> 0, results |-> <<>>]
    /\ camera_running = FALSE
    /\ frames_read = 0
    /\ loops = <<>>
    /\ main_pc = "idle"
    /\ read_frame = NoFrame
    /\ displayed = NoDisplay
    /\ stats_it = NoIterator
    /\ stats_out = NoStats

(***************************************************************************)
(* Specification of one analyze_emotion call                               *)
(***************************************************************************)
\* Raw labels the classifier may use: native ones, and a canonical name
\* that is not native and so passes through the map unchanged.
RawLabels == {"angry", "anger", "fear", "happy"}
RawDists == Dicts(RawLabels, 0..MaxWeight, MaxRawLen)

AnalyzeOutcomes ==
    {[kind |-> "raise"]}
    \cup {[kind |-> "dict", result |-> [has_emotion |-> TRUE, emotion |-> e]] : e \in RawDists}
    \cup {[kind |-> "dict", result |-> [has_emotion |-> FALSE, emotion |-> <<>>]]}
    \cup {[kind |-> "list", results |-> <<>>]}
    \cup {[kind |-> "list", results |-> <<[has_emotion |-> TRUE, emotion |-> e]>>] :
             e \in {d \in RawDists : Len(d) <= 1}}

AnalyzeInit ==
    /\ cls_outcome \in AnalyzeOutcomes
    /\ analyze_pc = "call"
    /\ analyze_ret = <<>>
    /\ EngineIdle
    /\ HistoryIdle
    /\ SessionIdle

AnalyzeCall ==
    /\ analyze_pc = "call"
    /\ analyze_ret' = analyze_emotion(FALSE, cls_outcome).emotions
    /\ analyze_pc' = "returned"
    /\ UNCHANGED <<cls_outcome, engineVars, historyVars, sessionVars>>

SpecAnalyze == AnalyzeInit /\ [][AnalyzeCall]_vars

(***************************************************************************)
(* Specification of one analyze_emotion call on a classifier result whose  *)
(* keys are any labels, native or not, each with weight 1                  *)
(***************************************************************************)
MaxLabelKeys == 2   \* keys of such a result

\* Labels outside the native vocabulary.
ForeignLabels == {"anger", "contempt"}
AnyLabels == Range(emotion_labels) \cup ForeignLabels

LabelsInit ==
    /\ cls_outcome \in
          {[kind |-> "dict", result |-> [has_emotion |-> TRUE, emotion |-> e]] :
              e \in Dicts(AnyLabels, {1}, MaxLabelKeys)}
    /\ analyze_pc = "call"
    /\ analyze_ret = <<>>
    /\ EngineIdle
    /\ HistoryIdle
    /\ SessionIdle

SpecLabels == LabelsInit /\ [][AnalyzeCall]_vars

(***************************************************************************)
(* Specification of one FEREngine.process_frame call                       *)
(***************************************************************************)
FrameW == 8
FrameH == 8

\* Relative boxes of the detector: two faces inside the frame, a face too
\* small to cover one pixel, a face cut by the left edge (xmin < 0) and a
\* face cut by the right edge (xmin + width > 1).
SampleBoxes ==
    { [xmin |-> 0, ymin |-> 0, width |-> 2, height |-> 2],
      [xmin |-> 2, ymin |-> 1, width |-> 1, height |-> 2],
      [xmin |-> 1, ymin |-> 1, width |-> 0, height |-> 0],
      [xmin |-> -1, ymin |-> 1, width |-> 2, height |-> 2],
      [xmin |-> 3, ymin |-> 1, width |-> 2, height |-> 2] }

\* Classifier behaviours on one face.
SampleOutcomes ==
    { [kind |-> "raise"],
      [kind |-> "dict", result |-> [has_emotion |-> FALSE, emotion |-> <<>>]],
      [kind |-> "list", results |-> <<>>],
      [kind |-> "dict", result |->
          [has_emotion |-> TRUE, emotion |-> << <<"angry", 1>>, <<"happy", 2>> >>]],
      [kind |-> "list", results |->
          << [has_emotion |-> TRUE, emotion |-> << <<"fear", 1>>, <<"sad", 1>> >>] >>],
      [kind |-> "dict", result |->
          [has_emotion |-> TRUE,
           emotion |-> << <<"sad", 1>>, <<"happy", 2>>, <<"surprise", 2>> >>]],
      [kind |-> "dict", result |->
          [has_emotion |-> TRUE, emotion |-> << <<"happy", 0>>, <<"sad", 0>> >>]] }

SeqsUpTo(S, n) == UNION {[1..m -> S] : m \in 0..n}

DetOutcomes ==
    {[kind |-> "error"]}
    \cup {[kind |-> "ok", detections |-> bs] : bs \in SeqsUpTo(SampleBoxes, MaxFaces)}

NewFrame(id) == [id |-> id, w |-> FrameW, h |-> FrameH, marks |-> <<>>]

EngineInit ==
    /\ AnalyzeIdle
    /\ HistoryIdle
    /\ SessionIdle
    /\ frame_heap = <<NewFrame(1)>>
    /\ caller_frame = NewFrame(1)
    /\ det_outcome \in DetOutcomes
    /\ cls_outcomes \in [1..MaxFaces -> SampleOutcomes]
    /\ IF det_outcome.kind = "ok"
       THEN \A i \in 1..MaxFaces :
               i > Len(det_outcome.detections) => cls_outcomes[i] = [kind |-> "raise"]
       ELSE \A i \in 1..MaxFaces : cls_outcomes[i] = [kind |-> "raise"]
    /\ engine_pc = "call"
    /\ engine_ret = [frame_ref |-> 0, results |-> <<>>]
    /\ det_calls = 0

EngineCall ==
    /\ engine_pc = "call"
    /\ LET r == FEREngine_process_frame(frame_heap, 1, det_outcome, cls_outcomes)
       IN  /\ frame_heap' = r.heap
           /\ engine_pc' = IF r.raised THEN "raised" ELSE "returned"
           /\ engine_ret' = [frame_ref |-> r.frame_ref, results |-> r.results]
           /\ det_calls' = det_calls + r.det_calls
    /\ UNCHANGED <<analyzeVars, historyVars, sessionVars, caller_frame, det_outcome,
                   cls_outcomes>>

SpecEngine == EngineInit /\ [][EngineCall]_vars

(***************************************************************************)
(* Specification of one LiveCameraFER.process_frame call on a fresh         *)
(* object: the engine runs on the frame, then the history takes one entry   *)
(* per result.                                                             *)
(***************************************************************************)
AppInit == EngineInit

AppCall ==
    /\ engine_pc = "call"
    /\ LET r == FEREngine_process_frame(frame_heap, 1, det_outcome, cls_outcomes)
           p == LiveCameraFER_process_frame(emotion_history, clock, 1, r)
       IN  /\ frame_heap' = r.heap
           /\ engine_pc' = IF r.raised THEN "raised" ELSE "returned"
           /\ engine_ret' = [frame_ref |-> p.frame_ref, results |-> p.results]
           /\ det_calls' = det_calls + r.det_calls
           /\ emotion_history' = p.history
           /\ clock' = p.clock
           /\ appended' = appended \o
                 [i \in 1..Len(p.results) |-> HistoryEntry(p.results[i], clock + i)]
    /\ UNCHANGED <<analyzeVars, sessionVars, caller_frame, det_outcome, cls_outcomes,
                   feed>>

SpecApp == AppInit /\ [][AppCall]_vars

(***************************************************************************)
(* Specification of a long single-threaded session: frame after frame goes *)
(* through LiveCameraFER.process_frame.  The scene is scripted: the n-th   *)
(* face ever seen gets the classifier behaviour number (feed * n) modulo   *)
(* the number of behaviours, so that entries of the history differ.        *)
(***************************************************************************)
MaxAppends == 150   \* entries appended in a long session
MaxFeed == 2        \* scripted scenes

OutcomeList ==
    << [kind |-> "dict", result |->
          [has_emotion |-> TRUE, emotion |-> << <<"angry", 1>>, <<"happy", 2>> >>]],
       [kind |-> "raise"],
       [kind |-> "list", results |->
          << [has_emotion |-> TRUE, emotion |-> << <<"fear", 1>>, <<"sad", 1>> >>] >>],
       [kind |-> "dict", result |-> [has_emotion |-> FALSE, emotion |-> <<>>]],
       [kind |-> "dict", result |->
          [has_emotion |-> TRUE, emotion |-> << <<"surprise", 2>> >>]] >>

ScriptedOutcome(n) == OutcomeList[((feed * n) % Len(OutcomeList)) + 1]

InFrameBox == [xmin |-> 0, ymin |-> 0, width |-> 2, height |-> 2]

LongInit ==
    /\ AnalyzeIdle
    /\ EngineIdle
    /\ SessionIdle
    /\ emotion_history = <<>>
    /\ clock = 0
    /\ appended = <<>>
    /\ feed \in 1..MaxFeed

\* One frame with k faces, or one on which the detector fails.
LongFrame ==
    \E k \in 0..MaxFaces, det_ok \in BOOLEAN :
        /\ Len(appended) + k <= MaxAppends
        /\ LET det == IF det_ok
                      THEN [kind |-> "ok", detections |-> [i \in 1..k |-> InFrameBox]]
                      ELSE [kind |-> "error"]
               cls == [i \in 1..k |-> ScriptedOutcome(Len(appended) + i)]
               r == FEREngine_process_frame(<<NewFrame(1)>>, 1, det, cls)
               p == LiveCameraFER_process_frame(emotion_history, clock, 1, r)
               new == [i \in 1..Len(p.results) |-> HistoryEntry(p.results[i], clock + i)]
           IN  /\ emotion_history' = p.history
               /\ clock' = p.clock
               /\ appended' = IF r.raised THEN appended ELSE appended \o new
    /\ UNCHANGED <<analyzeVars, engineVars, sessionVars, feed>>

SpecLong == LongInit /\ [][LongFrame]_vars

(***************************************************************************)
(* Specification of a live session: the Streamlit script thread (buttons,  *)
(* display, statistics) and the camera threads it starts.  A step is one   *)
(* access to the shared LiveCameraFER object.                              *)
(***************************************************************************)
MaxStarts == 2      \* "Start Camera" clicks in a session
MaxFrames == 2      \* frames the camera delivers in a session
MaxSessionFaces == 1  \* faces on one frame of a session

\* What the engine may meet on one frame of a session.
SessionDets ==
    {[kind |-> "error"]}
    \cup {[kind |-> "ok", detections |-> [i \in 1..k |-> InFrameBox]] :
             k \in 0..MaxSessionFaces}
SessionOutcomes == {OutcomeList[1], OutcomeList[2]}

\* emotion_counts[emotion] = emotion_counts.get(emotion, 0) + 1, entry by entry
RECURSIVE CountLoop(_, _, _)
CountLoop(entries, i, counts) ==
    IF i > Len(entries) THEN counts
    ELSE CountLoop(entries, i + 1,
            DictSet(counts, entries[i].emotion, DictGet(counts, entries[i].emotion, 0) + 1))

\* A faulty variant: the counts are divided by the number of labels.
EmotionStatsPerLabel(entries, total_detections) ==
    LET emotion_counts == CountLoop(entries, 1, <<>>)
    IN  [i \in 1..Len(emotion_counts) |->
            <<emotion_counts[i][1], Frac(emotion_counts[i][2], Len(emotion_counts))>>]

\* {emotion: count/total_detections for emotion, count in emotion_counts.items()}
EmotionStats(entries, total_detections) ==
    LET emotion_counts == CountLoop(entries, 1, <<>>)
    IN  [i \in 1..Len(emotion_counts) |->
            <<emotion_counts[i][1], Frac(emotion_counts[i][2], total_detections)>>]

\* get_emotion_statistics() run without interruption on the history.
get_emotion_statistics(history) ==
    IF Len(history) = 0 THEN <<>> ELSE EmotionStats(history, Len(history))

(***************************************************************************)
(* Specification of one get_emotion_statistics call on a history that no   *)
(* thread is writing                                                       *)
(***************************************************************************)
MaxSnapshot == 10   \* entries in the history

SnapshotLabels == {"happy", "sad"}

StatsInit ==
    /\ AnalyzeIdle
    /\ EngineIdle
    /\ SessionIdle
    /\ \E labels \in SeqsUpTo(SnapshotLabels, MaxSnapshot) :
          emotion_history =
              [i \in 1..Len(labels) |->
                  [emotion |-> labels[i], confidence |-> Frac(1, 1), timestamp |-> i]]
    /\ clock = Len(emotion_history)
    /\ appended = emotion_history
    /\ feed = 0

StatsCall ==
    /\ main_pc = "idle"
    /\ stats_out' = [status |-> "ok", total |-> Len(emotion_history),
                     seen |-> emotion_history,
                     stats |-> get_emotion_statistics(emotion_history)]
    /\ main_pc' = "stats_render"
    /\ UNCHANGED <<analyzeVars, engineVars, historyVars, appVars, read_frame, displayed,
                   stats_it>>

SpecStats == StatsInit /\ [][StatsCall]_vars

\* The deque's mutation counter, which its iterators compare: one tick per
\* append.
DequeState == Len(appended)

SessionInit ==
    /\ AnalyzeIdle
    /\ EngineIdle
    /\ HistoryIdle
    /\ SessionIdle

\* --- the script thread ---------------------------------------------------

\* "Start Camera": start_camera() makes a new VideoCapture, which may fail
\* to open; on success a camera thread is started.  The VideoCapture that
\* self.cap held before loses its last reference and is closed.
StartCamera ==
    /\ main_pc = "idle"
    /\ Len(caps) < MaxStarts
    /\ \E ok \in BOOLEAN :
          /\ caps' = Append([i \in 1..Len(caps) |->
                               IF i = cap THEN [opened |-> FALSE] ELSE caps[i]],
                            [opened |-> ok])
          /\ cap' = Len(caps) + 1
          /\ IF ok
             THEN /\ loops' = Append(loops, [pc |-> "start", acquired |-> Len(caps) + 1,
                                             frame |-> NoFrame, results |-> <<>>, idx |-> 0,
                                             stopped |-> FALSE, failed |-> FALSE])
                  /\ camera_running' = TRUE
             ELSE UNCHANGED <<loops, camera_running>>
    /\ UNCHANGED <<analyzeVars, engineVars, historyVars, mainVars, is_running, frame_count,
                   current_frame, current_results, frames_read>>

\* "Stop Camera", first statement of stop_camera(): release the capture.
StopRelease ==
    /\ main_pc = "idle"
    /\ caps' = [i \in 1..Len(caps) |-> IF i = cap THEN [opened |-> FALSE] ELSE caps[i]]
    /\ main_pc' = "stop_flag"
    /\ UNCHANGED <<analyzeVars, engineVars, historyVars, cap, is_running, frame_count,
                   current_frame, current_results, camera_running, frames_read, loops,
                   read_frame, displayed, stats_it, stats_out>>

\* second statement of stop_camera(), and the session flag; every loop then
\* running has been told to stop (stopped: history variable)
StopFlag ==
    /\ main_pc = "stop_flag"
    /\ is_running' = FALSE
    /\ camera_running' = FALSE
    /\ loops' = [t \in 1..Len(loops) |->
                    [loops[t] EXCEPT !.stopped = @ \/ loops[t].pc # "done"]]
    /\ main_pc' = "idle"
    /\ UNCHANGED <<analyzeVars, engineVars, historyVars, cap, caps, frame_count,
                   current_frame, current_results, frames_read,
                   read_frame, displayed, stats_it, stats_out>>

\* The display reads fer_app.current_frame ...
DisplayReadFrame ==
    /\ main_pc = "idle"
    /\ camera_running
    /\ current_frame.has
    /\ read_frame' = current_frame.frame
    /\ main_pc' = "display_results"
    /\ UNCHANGED <<analyzeVars, engineVars, historyVars, appVars, displayed, stats_it,
                   stats_out>>

\* ... and then fer_app.current_results.
DisplayReadResults ==
    /\ main_pc = "display_results"
    /\ displayed' = IF current_results.has
                    THEN [has |-> TRUE, frame_id |-> read_frame.id,
                          results_of |-> current_results.of,
                          results |-> current_results.results]
                    ELSE [has |-> FALSE, frame_id |-> read_frame.id, results_of |-> 0,
                          results |-> <<>>]
    /\ read_frame' = NoFrame
    /\ main_pc' = "display_render"
    /\ UNCHANGED <<analyzeVars, engineVars, historyVars, appVars, stats_it, stats_out>>

\* The image and the detections are rendered; the script goes on.
DisplayRender ==
    /\ main_pc = "display_render"
    /\ displayed' = NoDisplay
    /\ main_pc' = "idle"
    /\ UNCHANGED <<analyzeVars, engineVars, historyVars, appVars, read_frame, stats_it,
                   stats_out>>

\* "if fer_app.emotion_history:" and "if not self.emotion_history: return {}"
StatsCheck ==
    /\ main_pc = "idle"
    /\ IF Len(emotion_history) = 0
       THEN /\ stats_out' = [NoStats EXCEPT !.status = "empty"]
            /\ main_pc' = "stats_render"
       ELSE /\ stats_out' = NoStats
            /\ main_pc' = "stats_len"
    /\ UNCHANGED <<analyzeVars, engineVars, historyVars, appVars, read_frame, displayed,
                   stats_it>>

\* total_detections = len(self.emotion_history)
StatsLen ==
    /\ main_pc = "stats_len"
    /\ stats_it' = [NoIterator EXCEPT !.total = Len(emotion_history)]
    /\ main_pc' = "stats_iter"
    /\ UNCHANGED <<analyzeVars, engineVars, historyVars, appVars, read_frame, displayed,
                   stats_out>>

\* "for entry in self.emotion_history": the iterator is made; it notes the
\* deque's mutation counter and length.
StatsIter ==
    /\ main_pc = "stats_iter"
    /\ stats_it' = [stats_it EXCEPT !.state = DequeState,
                                    !.remaining = Len(emotion_history)]
    /\ main_pc' = "stats_next"
    /\ UNCHANGED <<analyzeVars, engineVars, historyVars, appVars, read_frame, displayed,
                   stats_out>>

\* One next() of the iterator: RuntimeError when the deque was mutated since
\* the iterator was made, the end when nothing remains, else the next entry.
\* At the end the fractions are computed and returned.
StatsNext ==
    /\ main_pc = "stats_next"
    /\ IF stats_it.state # DequeState
       THEN /\ stats_out' = [status |-> "error", total |-> stats_it.total,
                             seen |-> stats_it.seen, stats |-> <<>>]
            /\ stats_it' = NoIterator
            /\ main_pc' = "stats_render"
       ELSE IF stats_it.remaining = 0
       THEN /\ stats_out' = [status |-> "ok", total |-> stats_it.total,
                             seen |-> stats_it.seen,
                             stats |-> EmotionStats(stats_it.seen, stats_it.total)]
            /\ stats_it' = NoIterator
            /\ main_pc' = "stats_render"
       ELSE /\ stats_it' = [stats_it EXCEPT
                              !.seen = Append(@, emotion_history[Len(@) + 1]),
                              !.remaining = @ - 1]
            /\ UNCHANGED <<stats_out, main_pc>>
    /\ UNCHANGED <<analyzeVars, engineVars, historyVars, appVars, read_frame, displayed>>

\* The chart and the metrics are rendered (or the script run ends with the
\* error); the script goes on.
StatsRender ==
    /\ main_pc = "stats_render"
    /\ stats_out' = NoStats
    /\ main_pc' = "idle"
    /\ UNCHANGED <<analyzeVars, engineVars, historyVars, appVars, read_frame, displayed,
                   stats_it>>

\* --- a camera thread: run_camera_loop ------------------------------------

Goto(t, pc) == [loops EXCEPT ![t].pc = pc]

\* self.is_running = True
LoopSetRunning(t) ==
    /\ loops[t].pc = "start"
    /\ is_running' = TRUE
    /\ loops' = Goto(t, "while")
    /\ UNCHANGED <<analyzeVars, engineVars, historyVars, mainVars, cap, caps, frame_count,
                   current_frame, current_results, camera_running, frames_read>>

\* while self.is_running:
LoopWhile(t) ==
    /\ loops[t].pc = "while"
    /\ loops' = Goto(t, IF is_running THEN "check" ELSE "done")
    /\ UNCHANGED <<analyzeVars, engineVars, historyVars, mainVars, cap, caps, is_running,
                   frame_count, current_frame, current_results, camera_running,
                   frames_read>>

\* if self.cap and self.cap.isOpened(): ... else: break
LoopCheck(t) ==
    /\ loops[t].pc = "check"
    /\ loops' = Goto(t, IF cap # 0 /\ caps[cap].opened THEN "read" ELSE "done")
    /\ UNCHANGED <<analyzeVars, engineVars, historyVars, mainVars, cap, caps, is_running,
                   frame_count, current_frame, current_results, camera_running,
                   frames_read>>

\* ret, frame = self.cap.read(): a released capture gives no frame, an open
\* one gives a new frame or fails.  "if ret: ... else: break"
LoopRead(t) ==
    /\ loops[t].pc = "read"
    /\ \E ret \in BOOLEAN :
          /\ ret => caps[cap].opened /\ frames_read < MaxFrames
          /\ IF ret
             THEN /\ frames_read' = frames_read + 1
                  /\ loops' = [loops EXCEPT ![t].pc = "process",
                                            ![t].frame = NewFrame(frames_read + 1)]
             ELSE /\ loops' = Goto(t, "done")
                  /\ UNCHANGED frames_read
    /\ UNCHANGED <<analyzeVars, engineVars, historyVars, mainVars, cap, caps, is_running,
                   frame_count, current_frame, current_results, camera_running>>

\* A faulty variant: the engine's exception is not caught and leaves
\* process_frame.
process_frame_try_uncaught(frame, r) ==
    IF r.raised
    THEN [escaped |-> TRUE, failed |-> TRUE, frame |-> frame, results |-> <<>>]
    ELSE [escaped |-> FALSE, failed |-> FALSE, frame |-> r.heap[r.frame_ref],
          results |-> r.results]

\* The try block of LiveCameraFER.process_frame around the engine call: the
\* engine's exception is caught and (frame, []) returned.
process_frame_try(frame, r) ==
    IF r.raised
    THEN [escaped |-> FALSE, failed |-> TRUE, frame |-> frame, results |-> <<>>]
    ELSE [escaped |-> FALSE, failed |-> FALSE, frame |-> r.heap[r.frame_ref],
          results |-> r.results]

\* self.process_frame(frame), up to the first append: the engine runs on the
\* frame.  An exception that left process_frame would end the thread.
\* (failed: history variable, the engine raised on the frame last processed)
LoopProcess(t) ==
    /\ loops[t].pc = "process"
    /\ \E det \in SessionDets, cls \in [1..MaxSessionFaces -> SessionOutcomes] :
          LET r == FEREngine_process_frame(<<loops[t].frame>>, 1, det, cls)
              p == process_frame_try(loops[t].frame, r)
          IN  loops' = [loops EXCEPT
                  ![t].frame = p.frame,
                  ![t].results = p.results,
                  ![t].idx = 1,
                  ![t].failed = p.failed,
                  ![t].pc = IF p.escaped THEN "done"
                            ELSE IF Len(p.results) = 0 THEN "publish_frame"
                            ELSE "append"]
    /\ UNCHANGED <<analyzeVars, engineVars, historyVars, mainVars, cap, caps, is_running,
                   frame_count, current_frame, current_results, camera_running,
                   frames_read>>

\* self.emotion_history.append({...}) for one result
LoopAppend(t) ==
    /\ loops[t].pc = "append"
    /\ LET e == HistoryEntry(loops[t].results[loops[t].idx], clock + 1)
       IN  /\ emotion_history' = deque_append(emotion_history, e)
           /\ appended' = Append(appended, e)
           /\ clock' = clock + 1
    /\ loops' = [loops EXCEPT
                    ![t].idx = @ + 1,
                    ![t].pc = IF loops[t].idx >= Len(loops[t].results)
                              THEN "publish_frame" ELSE "append"]
    /\ UNCHANGED <<analyzeVars, engineVars, mainVars, feed, cap, caps, is_running,
                   frame_count, current_frame, current_results, camera_running,
                   frames_read>>

\* rgb_frame = cv2.cvtColor(processed_frame, ...); self.current_frame = rgb_frame
LoopPublishFrame(t) ==
    /\ loops[t].pc = "publish_frame"
    /\ current_frame' = [has |-> TRUE, frame |-> loops[t].frame]
    /\ loops' = Goto(t, "publish_results")
    /\ UNCHANGED <<analyzeVars, engineVars, historyVars, mainVars, cap, caps, is_running,
                   frame_count, current_results, camera_running, frames_read>>

\* self.current_results = results; self.frame_count += 1; time.sleep(0.03)
LoopPublishResults(t) ==
    /\ loops[t].pc = "publish_results"
    /\ current_results' = [has |-> TRUE, of |-> loops[t].frame.id,
                           results |-> loops[t].results]
    /\ frame_count' = frame_count + 1
    /\ loops' = [loops EXCEPT ![t].pc = "while", ![t].frame = NoFrame,
                              ![t].results = <<>>, ![t].idx = 0]
    /\ UNCHANGED <<analyzeVars, engineVars, historyVars, mainVars, cap, caps, is_running,
                   current_frame, camera_running, frames_read>>

Next ==
    \/ StartCamera
    \/ StopRelease
    \/ StopFlag
    \/ DisplayReadFrame
    \/ DisplayReadResults
    \/ DisplayRender
    \/ StatsCheck
    \/ StatsLen
    \/ StatsIter
    \/ StatsNext
    \/ StatsRender
    \/ \E t \in 1..Len(loops) : LoopSetRunning(t)
    \/ \E t \in 1..Len(loops) : LoopWhile(t)
    \/ \E t \in 1..Len(loops) : LoopCheck(t)
    \/ \E t \in 1..Len(loops) : LoopRead(t)
    \/ \E t \in 1..Len(loops) : LoopProcess(t)
    \/ \E t \in 1..Len(loops) : LoopAppend(t)
    \/ \E t \in 1..Len(loops) : LoopPublishFrame(t)
    \/ \E t \in 1..Len(loops) : LoopPublishResults(t)

Spec == SessionInit /\ [][Next]_vars

\* A session in which "Start Camera" is clicked once: one camera thread.
StartCameraOnce == Len(caps) = 0 /\ StartCamera

NextOneStart ==
    \/ StartCameraOnce
    \/ StopRelease
    \/ StopFlag
    \/ DisplayReadFrame
    \/ DisplayReadResults
    \/ DisplayRender
    \/ StatsCheck
    \/ StatsLen
    \/ StatsIter
    \/ StatsNext
    \/ StatsRender
    \/ \E t \in 1..Len(loops) : LoopSetRunning(t)
    \/ \E t \in 1..Len(loops) : LoopWhile(t)
    \/ \E t \in 1..Len(loops) : LoopCheck(t)
    \/ \E t \in 1..Len(loops) : LoopRead(t)
    \/ \E t \in 1..Len(loops) : LoopProcess(t)
    \/ \E t \in 1..Len(loops) : LoopAppend(t)
    \/ \E t \in 1..Len(loops) : LoopPublishFrame(t)
    \/ \E t \in 1..Len(loops) : LoopPublishResults(t)

SpecOneStart == SessionInit /\ [][NextOneStart]_vars

(***************************************************************************)
(* Properties of the rolling history (SpecLong)                            *)
(***************************************************************************)
\* C1: in every reachable state of a session, after any sequence of
\* frame-processing calls, the rolling history holds at most 100 entries.
C1_HistoryBounded == Len(emotion_history) <= maxlen

\* C1 witness: more than 100 entries were appended and the history is full.
C1_Witness == Len(appended) > maxlen /\ Len(emotion_history) = maxlen

\* C2: eviction is strict FIFO: after m appends to an initially empty
\* history the history is exactly the last min(m, 100) appended entries in
\* their original order.
C2_StrictFIFO ==
    LET m == Len(appended)
        k == IF m < maxlen THEN m ELSE maxlen
    IN  emotion_history = SubSeq(appended, m - k + 1, m)

\* C2 witness: 150 appends; the first 50 are gone and the 51st is the oldest.
C2_Witness ==
    /\ Len(appended) = 150
    /\ Len(emotion_history) = 100
    /\ emotion_history[1] = appended[51]
    /\ emotion_history[1] # appended[1]
    /\ emotion_history[100] = appended[150]

(***************************************************************************)
(* Properties of FEREngine.process_frame (SpecEngine)                      *)
(***************************************************************************)
\* The classifier gives no distribution for face i: the crop is empty, the
\* call raises, or the result carries no emotion.
ClassifierFailed(i) ==
    LET o == cls_outcomes[i]
    IN  \/ CropEmpty(caller_frame, PixelBox(det_outcome.detections[i], FrameW, FrameH))
        \/ o.kind = "raise"
        \/ o.kind = "list" /\ Len(o.results) = 0
        \/ o.kind = "list" /\ Len(o.results) > 0 /\ ResultEmotions(o.results[1]) = <<>>
        \/ o.kind = "dict" /\ ResultEmotions(o.result) = <<>>

\* C3: when the detector returns k boxes and the classifier fails on any
\* subset of them, process_frame returns without raising exactly k
\* observations in the detector's order; a failed face has empty emotions
\* and dominant emotion 'neutral', a successful one has non-empty emotions.
C3_ClassifierFailureAbsorbed ==
    (engine_pc # "call" /\ det_outcome.kind = "ok") =>
        /\ engine_pc = "returned"
        /\ Len(engine_ret.results) = Len(det_outcome.detections)
        /\ \A i \in 1..Len(det_outcome.detections) :
              /\ engine_ret.results[i].bbox =
                    PixelBox(det_outcome.detections[i], FrameW, FrameH)
              /\ IF ClassifierFailed(i)
                 THEN /\ engine_ret.results[i].emotions = <<>>
                      /\ engine_ret.results[i].dominant_emotion = "neutral"
                 ELSE engine_ret.results[i].emotions # <<>>

\* C3 witness: two faces, the classifier raised on one and succeeded on the
\* other.
C3_Witness ==
    /\ engine_pc = "returned"
    /\ det_outcome.kind = "ok"
    /\ Len(det_outcome.detections) = 2
    /\ \E i, j \in 1..2 :
          /\ cls_outcomes[i].kind = "raise"
          /\ engine_ret.results[i].emotions = <<>>
          /\ ~ClassifierFailed(j)
          /\ engine_ret.results[j].emotions # <<>>

\* C4: when the detector errors on a frame, process_frame fails as a whole:
\* the failure reaches the caller, nothing is returned, and the detector
\* was called once.
C4_DetectionFailurePropagates ==
    (engine_pc # "call" /\ det_outcome.kind = "error") =>
        /\ engine_pc = "raised"
        /\ engine_ret = [frame_ref |-> 0, results |-> <<>>]
        /\ det_calls = 1

\* C4 witness: a call on which the detector errored has ended.
C4_Witness == engine_pc = "raised" /\ det_outcome.kind = "error" /\ det_calls = 1

\* C5: process_frame never mutates the caller's frame: the input buffer
\* after the call equals the input buffer before it, and when a face was
\* drawn the annotated frame is another buffer, which carries the drawing.
C5_InputFrameUnchanged ==
    engine_pc = "returned" =>
        /\ frame_heap[1] = caller_frame
        /\ Len(engine_ret.results) > 0 =>
              /\ engine_ret.frame_ref # 1
              /\ frame_heap[engine_ret.frame_ref].marks # <<>>

(***************************************************************************)
(* Properties of the mapping block of analyze_emotion (SpecAnalyze)        *)
(***************************************************************************)
\* The raw distribution the classifier returned on this call, if any.
ReturnedRaw ==
    IF cls_outcome.kind = "dict" THEN ResultEmotions(cls_outcome.result)
    ELSE IF cls_outcome.kind = "list" /\ Len(cls_outcome.results) > 0
         THEN ResultEmotions(cls_outcome.results[1])
         ELSE <<>>

ClassifierReturned ==
    \/ cls_outcome.kind = "dict"
    \/ cls_outcome.kind = "list" /\ Len(cls_outcome.results) > 0

RECURSIVE WeightOf(_, _)
WeightOf(raw, I) ==
    IF I = {} THEN 0
    ELSE LET i == CHOOSE i \in I : TRUE IN raw[i][2] + WeightOf(raw, I \ {i})

\* The raw weight on the raw labels that map to canonical label c.
MassOn(raw, c) == WeightOf(raw, {i \in 1..Len(raw) : MapLabel(raw[i][1]) = c})
TotalMass(raw) == WeightOf(raw, 1..Len(raw))

RECURSIVE SumNums(_, _)
SumNums(d, i) == IF i > Len(d) THEN 0 ELSE d[i][2].num + SumNums(d, i + 1)

\* C9: for every raw distribution with positive total mass, each canonical
\* label gets the sum of the raw weights of all raw labels that map to it,
\* divided by the total mass, so the output sums to 1.
C9_RemapSumsAndNormalises ==
    (analyze_pc = "returned" /\ ClassifierReturned /\ TotalMass(ReturnedRaw) > 0) =>
        /\ Range(Keys(analyze_ret)) = {MapLabel(ReturnedRaw[i][1]) : i \in 1..Len(ReturnedRaw)}
        /\ \A j \in 1..Len(analyze_ret) :
              analyze_ret[j][2] =
                  Frac(MassOn(ReturnedRaw, analyze_ret[j][1]), TotalMass(ReturnedRaw))
        /\ \A i, j \in 1..Len(analyze_ret) : analyze_ret[i][1] = analyze_ret[j][1] => i = j
        /\ SumNums(analyze_ret, 1) = TotalMass(ReturnedRaw)

\* C9 witness: 'angry' and 'anger' both carry weight and collide on 'anger',
\* which gets their sum.
C9_Witness ==
    /\ analyze_pc = "returned"
    /\ cls_outcome.kind = "dict"
    /\ \E i, j \in 1..Len(ReturnedRaw) :
          /\ ReturnedRaw[i] = <<"angry", 1>>
          /\ ReturnedRaw[j] = <<"anger", 2>>
    /\ \E k \in 1..Len(analyze_ret) :
          analyze_ret[k][1] = "anger" /\ analyze_ret[k][2].num = 3

\* C10: when the raw distribution has total mass 0 (empty, or non-empty with
\* all values zero) the empty distribution is returned.
C10_ZeroMassGivesEmpty ==
    (analyze_pc = "returned" /\ ClassifierReturned /\ TotalMass(ReturnedRaw) = 0) =>
        analyze_ret = <<>>

(***************************************************************************)
(* Properties of the live session (Spec)                                   *)
(***************************************************************************)
\* C6: the latest frame/observations slot is published atomically: under
\* every interleaving of the camera loop with the display, the frame and
\* the observations the display obtains come from one and the same
\* processed frame.
C6_PairPublishedAtomically ==
    displayed.has => displayed.frame_id = displayed.results_of

\* The history as it was when p entries had been appended.
HistoryAt(p) == SubSeq(appended, (IF p > maxlen THEN p - maxlen ELSE 0) + 1, p)

\* C7: a statistics computation that runs while entries are appended sees a
\* consistent snapshot: it does not fail, the entries it counted and the
\* length it divided by are those of one state the history had, and the
\* fractions sum to 1.  Stated for a session with one camera thread, the
\* only writer of the history.
C7_StatisticsSeeSnapshot ==
    (Len(loops) <= 1 /\ stats_out.status \in {"ok", "error"}) =>
        /\ stats_out.status = "ok"
        /\ \E p \in 0..Len(appended) :
              /\ stats_out.seen = HistoryAt(p)
              /\ stats_out.total = Len(HistoryAt(p))
        /\ SumNums(stats_out.stats, 1) = stats_out.total

\* C8: the camera handle is released on every exit path of the processing
\* loop: whenever a loop that acquired the camera has terminated, the
\* handle it acquired has been released.
C8_CameraReleasedOnExit ==
    \A t \in 1..Len(loops) :
        loops[t].pc = "done" => ~caps[loops[t].acquired].opened

(***************************************************************************)
(* Properties of the label map (SpecLabels)                                *)
(***************************************************************************)
CanonicalLabels ==
    {"happy", "surprise", "frustration", "anger", "sad", "neutral", "disgust"}

\* The table the claim states.
ClaimedLabel(l) ==
    IF l = "fear" THEN "frustration" ELSE IF l = "angry" THEN "anger" ELSE l

\* C11: the label map is a fixed total function: 'fear' maps to
\* 'frustration', 'angry' to 'anger', each of the other five native labels
\* to itself, and a label outside the native vocabulary passes through
\* unchanged; so a native label always gives one of the 7 canonical labels.
C11_LabelMap ==
    analyze_pc = "returned" =>
        /\ Len(analyze_ret) > 0 <=> Len(ReturnedRaw) > 0
        /\ Range(Keys(analyze_ret)) =
              {ClaimedLabel(ReturnedRaw[i][1]) : i \in 1..Len(ReturnedRaw)}
        /\ \A i \in 1..Len(ReturnedRaw) :
              /\ \E j \in 1..Len(analyze_ret) :
                    /\ analyze_ret[j][1] = ClaimedLabel(ReturnedRaw[i][1])
                    /\ j <= i
              /\ ReturnedRaw[i][1] \in Range(emotion_labels) =>
                    ClaimedLabel(ReturnedRaw[i][1]) \in CanonicalLabels

\* C11 witness: 'fear' and a label outside the vocabulary went through the
\* map; the first came out as 'frustration', the second unchanged.
C11_Witness ==
    /\ analyze_pc = "returned"
    /\ Keys(ReturnedRaw) = <<"fear", "contempt">>
    /\ Keys(analyze_ret) = <<"frustration", "contempt">>

(***************************************************************************)
(* Properties of the observations and of the history entries made of them  *)
(***************************************************************************)
\* Item i of a distribution is maximal, and the first of the maximal items.
FirstMaximum(emotions, i) ==
    /\ \A j \in 1..Len(emotions) : ~FracLess(emotions[i][2], emotions[j][2])
    /\ \A j \in 1..(i - 1) : FracLess(emotions[j][2], emotions[i][2])

\* C12: in every observation with a non-empty distribution the dominant
\* emotion is a label of maximum probability, and among equal maxima the
\* first in the distribution's iteration order.
C12_DominantIsFirstMaximum ==
    engine_pc = "returned" =>
        \A k \in 1..Len(engine_ret.results) :
            LET o == engine_ret.results[k]
            IN  Len(o.emotions) > 0 =>
                    \E i \in 1..Len(o.emotions) :
                        /\ o.emotions[i][1] = o.dominant_emotion
                        /\ FirstMaximum(o.emotions, i)

\* C12 witness: an observation whose two largest probabilities are equal
\* and come after a smaller one; the first of the two is the dominant one.
C12_Witness ==
    /\ engine_pc = "returned"
    /\ \E k \in 1..Len(engine_ret.results) :
          LET o == engine_ret.results[k]
          IN  /\ Keys(o.emotions) = <<"sad", "happy", "surprise">>
              /\ FracEq(o.emotions[2][2], o.emotions[3][2])
              /\ FracLess(o.emotions[1][2], o.emotions[2][2])
              /\ o.dominant_emotion = "happy"

\* C13: every history entry appended for an observation carries the
\* observation's dominant emotion and, as confidence, the largest
\* probability of its distribution; an observation with empty emotions
\* still gives an entry, ('neutral', 0).
C13_EntryMatchesObservation ==
    engine_pc = "returned" =>
        /\ Len(emotion_history) = Len(engine_ret.results)
        /\ \A k \in 1..Len(engine_ret.results) :
              LET o == engine_ret.results[k]
                  e == emotion_history[k]
              IN  /\ e.emotion = o.dominant_emotion
                  /\ IF Len(o.emotions) = 0
                     THEN e.emotion = "neutral" /\ e.confidence = Frac(0, 1)
                     ELSE \E i \in 1..Len(o.emotions) :
                             /\ FirstMaximum(o.emotions, i)
                             /\ e.confidence = o.emotions[i][2]

\* C13 witness: a frame with two faces, one classified and one not, has
\* given a ('neutral', 0) entry and an entry whose confidence is not the
\* first probability of its distribution.
C13_Witness ==
    /\ engine_pc = "returned"
    /\ Len(emotion_history) = 2
    /\ \E k, m \in 1..2 :
          /\ engine_ret.results[k].emotions = <<>>
          /\ emotion_history[k].emotion = "neutral"
          /\ emotion_history[k].confidence = Frac(0, 1)
          /\ Len(engine_ret.results[m].emotions) > 1
          /\ FracLess(engine_ret.results[m].emotions[1][2], emotion_history[m].confidence)

(***************************************************************************)
(* Properties of the statistics of a history at rest (SpecStats)           *)
(***************************************************************************)
\* How many entries of the history carry the label.
Occurrences(label) ==
    Cardinality({i \in 1..Len(emotion_history) : emotion_history[i].emotion = label})

\* C14: the statistics of an empty history are the empty mapping; those of
\* a non-empty history hold exactly the labels occurring in it, each with
\* its number of occurrences divided by the number of entries, so the
\* fractions sum to 1.
C14_StatisticsAreFrequencies ==
    main_pc = "stats_render" =>
        LET stats == stats_out.stats
            n == Len(emotion_history)
        IN  IF n = 0 THEN stats = <<>>
            ELSE /\ Range(Keys(stats)) = {emotion_history[i].emotion : i \in 1..n}
                 /\ Len(stats) = Cardinality(Range(Keys(stats)))
                 /\ \A j \in 1..Len(stats) :
                       stats[j][2] = Frac(Occurrences(stats[j][1]), n)
                 /\ SumNums(stats, 1) = n

\* C14 witness: a history of 6 'happy' and 4 'sad' entries gave 6/10 and
\* 4/10.
C14_Witness ==
    /\ main_pc = "stats_render"
    /\ Occurrences("happy") = 6
    /\ Occurrences("sad") = 4
    /\ DictGet(stats_out.stats, "happy", Frac(0, 1)) = Frac(6, 10)
    /\ DictGet(stats_out.stats, "sad", Frac(0, 1)) = Frac(4, 10)

(***************************************************************************)
(* Properties of the boxes detect_faces returns (SpecEngine)               *)
(***************************************************************************)
\* C15: every box that locate(frame) returns, whatever relative box the
\* detector reported, has x >= 0, y >= 0, width > 0, height > 0,
\* x + width <= W and y + height <= H.
C15_BoxesInsideFrame ==
    engine_pc = "returned" =>
        \A k \in 1..Len(engine_ret.results) :
            LET b == engine_ret.results[k].bbox
            IN  /\ b.x >= 0
                /\ b.y >= 0
                /\ b.width > 0
                /\ b.height > 0
                /\ b.x + b.width <= FrameW
                /\ b.y + b.height <= FrameH

(***************************************************************************)
(* Properties of the camera threads (Spec)                                 *)
(***************************************************************************)
\* The camera threads that have not left run_camera_loop.
RunningLoops == {t \in 1..Len(loops) : loops[t].pc # "done"}

\* C16: at any time at most one processing activity exists: whatever Start
\* and Stop requests were made, no two camera loops run at the same time.
C16_AtMostOneLoop == Cardinality(RunningLoops) <= 1

\* C17: once the stop signal has been given the loop terminates, however
\* stop_camera interleaves with the loop's start-up or with a read in
\* progress: it takes no further frame from the camera, and so publishes
\* none acquired after the stop.
C17_StoppedLoopTakesNoFrame ==
    [][\A t \in 1..Len(loops) :
          loops[t].stopped => ~(loops[t].pc = "read" /\ loops'[t].pc = "process")]_vars

\* C18: a frame whose processing fails inside the loop is skipped: the
\* failure appends no entry to the history, the loop does not end because
\* of it, and it goes back to the loop condition for the next frame.
C18_FailedFrameSkipped ==
    [][\A t \in 1..Len(loops) :
          /\ (loops[t].pc = "process" /\ loops'[t].pc # "process" /\ loops'[t].failed) =>
                /\ emotion_history' = emotion_history
                /\ loops'[t].results = <<>>
                /\ loops'[t].pc = "publish_frame"
          /\ (loops[t].failed /\ loops[t].pc = "publish_frame" /\ loops'[t].pc # loops[t].pc) =>
                /\ emotion_history' = emotion_history
                /\ loops'[t].pc = "publish_results"
          /\ (loops[t].failed /\ loops[t].pc = "publish_results"
                 /\ loops'[t].pc # loops[t].pc) =>
                /\ emotion_history' = emotion_history
                /\ loops'[t].pc = "while"]_vars

\* C18 witness: the only camera thread failed on frame 1, appended nothing,
\* and has read frame 2, which it is about to process.
C18_Witness ==
    /\ Len(loops) = 1
    /\ loops[1].failed
    /\ loops[1].pc = "process"
    /\ loops[1].frame.id = 2
    /\ appended = <<>>
    /\ frame_count = 1

=============================================================================
